---- MODULE Spec2Model ----
(***************************************************************************)
(* Electric field visualizer (src/src/lib.rs): the main loop of run(), the *)
(* Game and Toolbar event handlers, the field evaluation and the           *)
(* field-line tracer of Game::on_update.                                   *)
(*                                                                         *)
(* Numbers.  The program computes in f64.  Here:                           *)
(*  - canvas coordinates are fixed point, SUB units to the pixel;          *)
(*  - a charge is a binary floating-point number with a MANT_BITS-bit      *)
(*    significand, rounded to nearest, ties to even, as f64 is, counted in *)
(*    units of the last place of CHARGE_STEP;                              *)
(*  - a field component is an integer in units fixed by COULUMBS_CONST;    *)
(*  - NaN (0/0, inf*0) is a value of its own, as in f64.                   *)
(* MAX_LINE_ITERS is 4096 in the source and is scaled down here.           *)
(***************************************************************************)
EXTENDS Integers, Sequences, FiniteSets, TLC

\* ---------------------------------------------------------------- bounds
MaxParticles == 2
MaxCharge == 1
MaxKeySteps == 7
MaxFieldParticles == 3
MaxTraceParticles == 3
MAX_LINE_ITERS == 4
SUB == 16
MANT_BITS == 5

\* ------------------------------------------------------------- constants
PARTICLE_RADIUS == 10
CHARGE_STEP == 23
SNAP_EPS == 4
COULUMBS_CONST == 1000000
LINES_PER_CHARGE == 16
WINDOW_W == 800
WINDOW_H == 600

VARIABLES
    particles,                \* Game.particles: sequence of <<x, y, charge>>
    current_selected_charge,  \* Game.current_selected_charge
    selected_part,            \* Toolbar.selected_part
    lines,                    \* the polylines the last Game::on_update drew
    running,                  \* the main loop has not been left
    redraws,                  \* history: number of Game::on_update calls
    frame,                    \* history: the current frame (see Tick)
    net_steps,                \* history: increases minus decreases since reset
    probe,                    \* the last field query and its split
    last_click                \* history: the last mouse-button-down, if recorded

vars == <<particles, current_selected_charge, selected_part, lines, running,
          redraws, frame, net_steps, probe, last_click>>

\* ------------------------------------------------------------ arithmetic
Abs(a) == IF a < 0 THEN -a ELSE a
Sgn(a) == IF a < 0 THEN -1 ELSE IF a > 0 THEN 1 ELSE 0
Max(a, b) == IF a > b THEN a ELSE b

\* a / b rounded to the nearest integer (b > 0)
RDiv(a, b) == Sgn(a) * ((2 * Abs(a) + b) \div (2 * b))

\* `as i32` of a coordinate: truncation toward zero
Trunc(a) == Sgn(a) * (Abs(a) \div SUB)

RECURSIVE Pow2(_)
Pow2(k) == IF k = 0 THEN 1 ELSE 2 * Pow2(k - 1)

\* operands are halved until their squares fit in 32-bit signed integers
HALF_RANGE == Pow2(15)

RECURSIVE SqrtIter(_, _)
SqrtIter(n, r) ==
    LET q == (r + n \div r) \div 2
    IN IF q >= r THEN r ELSE SqrtIter(n, q)

RECURSIVE SqrtGuess(_, _)
SqrtGuess(n, g) ==
    IF g * g >= n \/ g >= HALF_RANGE THEN g ELSE SqrtGuess(n, 2 * g)

\* the square root of n, rounded to the nearest integer
Sqrt(n) ==
    IF n = 0 THEN 0
    ELSE LET r == SqrtIter(n, SqrtGuess(n, 1))
         IN IF n - r * r > r THEN r + 1 ELSE r

\* f64::hypot: scaled so that the squares stay in range
RECURSIVE Hypot(_, _)
Hypot(a, b) ==
    IF Max(Abs(a), Abs(b)) < HALF_RANGE THEN Sqrt(a * a + b * b)
    ELSE 2 * Hypot(a \div 2, b \div 2)

\* the unit in the last place of a float of magnitude a
RECURSIVE Ulp(_, _)
Ulp(a, q) == IF a < q * Pow2(MANT_BITS) THEN q ELSE Ulp(a, 2 * q)

\* rounding of an exact result to the float format: nearest, ties to even
FRound(v) ==
    LET a == Abs(v)
        q == Ulp(a, 1)
        lo == (a \div q) * q
        r == a - lo
        up == \/ 2 * r > q
              \/ 2 * r = q /\ (lo \div q) % 2 = 1
    IN Sgn(v) * (IF up THEN lo + q ELSE lo)

FAdd(a, b) == FRound(a + b)

\* ------------------------------------------------------------- the field
NaN == [nan |-> TRUE, x |-> 0, y |-> 0]
Vec(x, y) == [nan |-> FALSE, x |-> x, y |-> y]

\* a mutation of Accumulate: `=` for `+=`
Overwrite(total_strength, tx, ty) == Vec(tx, ty)

\* total_strength.0 += ..; total_strength.1 += ..
Accumulate(total_strength, tx, ty) ==
    Vec(total_strength.x + tx, total_strength.y + ty)

\* the loop of get_field_strength over particles i..Len(ps); x, y in SUB units
RECURSIVE FieldFrom(_, _, _, _, _)
FieldFrom(ps, i, x, y, total_strength) ==
    IF i > Len(ps) THEN total_strength
    ELSE LET direct_x == x - ps[i][1] * SUB
             direct_y == y - ps[i][2] * SUB
             direct_mag == Hypot(direct_x, direct_y)
         IN IF direct_mag = 0 \/ total_strength.nan THEN NaN
            ELSE LET force_mag ==
                         RDiv(COULUMBS_CONST * ps[i][3], direct_mag * direct_mag)
                 IN FieldFrom(ps, i + 1, x, y,
                        Accumulate(total_strength,
                                   RDiv(force_mag * direct_x, direct_mag),
                                   RDiv(force_mag * direct_y, direct_mag)))

get_field_strength(ps, x, y) == FieldFrom(ps, 1, x, y, Vec(0, 0))

\* ------------------------------------------------------------ the tracer
\* PARTICLE_RADIUS as f64 * 1.1, in SUB units
CaptureRadius == (PARTICLE_RADIUS * SUB * 11) \div 10

\* (pos.0 - x).hypot(pos.1 - y) <= PARTICLE_RADIUS * 1.1, decided on the
\* squares; a comparison with NaN is false
Within(pos, part) ==
    /\ ~pos.nan
    /\ LET dx == pos.x - part[1] * SUB
           dy == pos.y - part[2] * SUB
       IN dx * dx + dy * dy <= CaptureRadius * CaptureRadius

\* a mutation of IsSink: neutral charges capture too
IsSinkOrNeutral(charge) == charge <= 0

\* .filter(|(_, _, charge)| *charge < 0.0)
IsSink(charge) == charge < 0

\* a mutation of IsSource: neutral charges emit too
IsSourceOrNeutral(charge) == charge >= 0

\* .filter(|(_, _, charge)| *charge > 0.0)
IsSource(charge) == charge > 0

\* the .find(..).is_some() of the tracing loop
Captured(ps, pos) ==
    \E i \in 1..Len(ps) : IsSink(ps[i][3]) /\ Within(pos, ps[i])

\* f / mag in SUB units, both scaled into range first
RECURSIVE UnitStep(_, _)
UnitStep(f, mag) ==
    IF mag >= HALF_RANGE THEN UnitStep(f \div 2, mag \div 2)
    ELSE RDiv(f * SUB, mag)

\* current_pos += field_strength / field_strength_mag
Advance(ps, pos) ==
    IF pos.nan THEN NaN
    ELSE LET field_strength == get_field_strength(ps, pos.x, pos.y)
             field_strength_mag ==
                 IF field_strength.nan THEN 0
                 ELSE Hypot(field_strength.x, field_strength.y)
         IN IF field_strength.nan \/ field_strength_mag = 0 THEN NaN
            ELSE Vec(pos.x + UnitStep(field_strength.x, field_strength_mag),
                     pos.y + UnitStep(field_strength.y, field_strength_mag))

\* Point::new(current_pos.0 as i32, current_pos.1 as i32); NaN as i32 is 0
Pixel(pos) == IF pos.nan THEN <<0, 0>> ELSE <<Trunc(pos.x), Trunc(pos.y)>>

\* a mutation of OnCapture: the captured point is pushed before the break
OnCapturePushed(line, pos) ==
    [line EXCEPT !.path = Append(@, pos), !.captured = TRUE,
                 !.points = Append(@, Pixel(pos))]

\* the break: the loop is left before line_points.push.  path (every
\* current_pos the loop computed) and captured are history of the trace.
OnCapture(line, pos) ==
    [line EXCEPT !.path = Append(@, pos), !.captured = TRUE]

\* line_points.push(..) at the end of an iteration
OnStep(line, pos) ==
    [line EXCEPT !.path = Append(@, pos), !.points = Append(@, Pixel(pos))]

\* for _ in 0..MAX_LINE_ITERS { .. }, k iterations done
RECURSIVE TraceFrom(_, _, _, _)
TraceFrom(ps, current_pos, k, line) ==
    IF k = MAX_LINE_ITERS THEN line
    ELSE LET pos == Advance(ps, current_pos)
         IN IF Captured(ps, pos) THEN OnCapture(line, pos)
            ELSE TraceFrom(ps, pos, k + 1, OnStep(line, pos))

\* 1024 * cos(i * PI / 8) and 1024 * sin(i * PI / 8), i = 0..15
COS == <<1024, 946, 724, 392, 0, -392, -724, -946,
         -1024, -946, -724, -392, 0, 392, 724, 946>>
SIN == <<0, 392, 724, 946, 1024, 946, 724, 392,
         0, -392, -724, -946, -1024, -946, -724, -392>>

\* the first current_pos of a line
Seed(part, i) ==
    Vec(part[1] * SUB + RDiv(CaptureRadius * COS[i + 1], 1024),
        part[2] * SUB + RDiv(CaptureRadius * SIN[i + 1], 1024))

\* a mutation of StartingAngles: the 8 lines of the comment at line 232
StartingAngles8 == 0..7

\* for i in 0..16
StartingAngles == 0..(LINES_PER_CHARGE - 1)

\* one line of one positive particle: the body of `for i in 0..16`
FieldLine(ps, j, i) ==
    LET seed == Seed(ps[j], i)
    IN TraceFrom(ps, seed, 0,
           [src |-> j, angle |-> i, points |-> <<Pixel(seed)>>,
            path |-> <<>>, captured |-> FALSE])

RECURSIVE LinesFrom(_, _)
LinesFrom(ps, j) ==
    IF j > Len(ps) THEN <<>>
    ELSE (IF IsSource(ps[j][3])
          THEN [n \in 1..Cardinality(StartingAngles) |-> FieldLine(ps, j, n - 1)]
          ELSE <<>>) \o LinesFrom(ps, j + 1)

\* Game::on_update: the polylines handed to canvas.draw_lines, in order
on_update(ps) == LinesFrom(ps, 1)

\* ----------------------------------------------------------- the toolbar
\* Toolbar.choices
Choices == <<"Positive", "Negative", "Neutral">>

\* canvas.output_size().unwrap().0 * 9 / 10
ToolbarLeft == (WINDOW_W * 9) \div 10

\* Toolbar::get_option_rect, index from 0
Toolbar_get_option_rect(index) ==
    LET y_inc == WINDOW_H \div Len(Choices)
    IN [x |-> ToolbarLeft, y |-> index * y_inc,
        w |-> WINDOW_W - ToolbarLeft, h |-> y_inc]

\* the condition of the `if` in the loop of Toolbar::handle_mouse_down
Hit(x, y, index) ==
    LET opt_rect == Toolbar_get_option_rect(index)
    IN /\ x >= opt_rect.x
       /\ x <= opt_rect.x + opt_rect.w
       /\ y >= opt_rect.y
       /\ y <= opt_rect.y + opt_rect.h

\* the selection Toolbar::handle_mouse_down leaves: the first choice hit
Selected(x, y, sel) ==
    LET hits == {i \in 0..(Len(Choices) - 1) : Hit(x, y, i)}
    IN IF hits = {} THEN sel
       ELSE Choices[1 + CHOOSE i \in hits : \A j \in hits : i <= j]

\* x as u32, as two 16-bit halves
AsU32(x) ==
    IF x >= 0 THEN [hi |-> x \div 65536, lo |-> x % 65536]
    ELSE [hi |-> 65535 - ((-x - 1) \div 65536),
          lo |-> 65535 - ((-x - 1) % 65536)]

U32Lt(a, b) == a.hi < b.hi \/ (a.hi = b.hi /\ a.lo < b.lo)

\* (x as u32) < canvas.output_size().unwrap().0 * 9 / 10
RoutedToGame(x) == U32Lt(AsU32(x), AsU32(ToolbarLeft))

\* ------------------------------------------------------------ the events
\* an event is processed: one that follows a Game::on_update of the same
\* frame marks the frame
Tick == IF frame = "fresh" THEN "fresh" ELSE "event_after_redraw"

\* a mutation of Pushed: insert at the front
Inserted(ps, part) == <<part>> \o ps

\* self.particles.push(..)
Pushed(ps, part) == Append(ps, part)

\* a mutation of PlacedCharge: the sign follows the toolbar selection
PlacedChargeByToolbar ==
    CASE selected_part = "Positive" -> Abs(current_selected_charge)
      [] selected_part = "Negative" -> -Abs(current_selected_charge)
      [] selected_part = "Neutral" -> 0
      [] OTHER -> current_selected_charge

\* the magnitude Game::handle_mouse_down pushes
PlacedCharge == current_selected_charge

\* a mutation of Game_handle_mouse_down: no redraw
Game_handle_mouse_down_lazy(x, y) ==
    /\ particles' = Pushed(particles, <<x, y, PlacedCharge>>)
    /\ frame' = Tick
    /\ UNCHANGED <<lines, redraws, current_selected_charge, net_steps>>

\* Game::handle_mouse_down: push, then self.on_update
Game_handle_mouse_down(x, y) ==
    /\ particles' = Pushed(particles, <<x, y, PlacedCharge>>)
    /\ lines' = on_update(particles')
    /\ redraws' = redraws + 1
    /\ frame' = IF Tick = "fresh" THEN "redrawn" ELSE Tick
    /\ UNCHANGED <<current_selected_charge, net_steps>>

\* Toolbar::handle_mouse_down (its on_update redraws the strip only)
Toolbar_handle_mouse_down(x, y) ==
    /\ selected_part' = Selected(x, y, selected_part)
    /\ frame' = Tick

\* Game::handle_keydown
Game_handle_keydown(keycode) ==
    LET c == CASE keycode = "Equals" -> FAdd(current_selected_charge, CHARGE_STEP)
               [] keycode = "Minus" -> FAdd(current_selected_charge, -CHARGE_STEP)
               [] keycode = "N" -> 0
               [] OTHER -> current_selected_charge
    IN /\ current_selected_charge' = IF Abs(c) < SNAP_EPS THEN 0 ELSE c
       /\ net_steps' = CASE keycode = "Equals" -> net_steps + 1
                         [] keycode = "Minus" -> net_steps - 1
                         [] keycode = "N" -> 0
                         [] OTHER -> net_steps

\* Game::handle_keyup
Game_handle_keyup == UNCHANGED <<particles, current_selected_charge>>

Keycodes == {"Equals", "Minus", "N", "Q", "A"}

\* Event::Quit
EventQuit ==
    /\ running
    /\ running' = FALSE
    /\ UNCHANGED <<particles, current_selected_charge, selected_part, lines,
                   redraws, frame, net_steps, probe, last_click>>

\* Event::MouseMotion: the field strength at the pointer is printed
EventMouseMotion(x, y) ==
    /\ running
    /\ get_field_strength(particles, x * SUB, y * SUB) \in [nan : BOOLEAN, x : Int, y : Int]
    /\ frame' = Tick
    /\ UNCHANGED <<particles, current_selected_charge, selected_part, lines,
                   running, redraws, net_steps, probe, last_click>>

\* the arm of Event::MouseButtonDown
MouseButtonDown(x, y) ==
    /\ running
    /\ IF RoutedToGame(x)
       THEN /\ Len(particles) < MaxParticles
            /\ Game_handle_mouse_down(x, y)
            /\ UNCHANGED selected_part
       ELSE /\ Toolbar_handle_mouse_down(x, y)
            /\ UNCHANGED <<particles, current_selected_charge, lines, redraws,
                           net_steps>>
    /\ UNCHANGED <<running, probe>>

\* Event::MouseButtonDown
EventMouseButtonDown(x, y) == MouseButtonDown(x, y) /\ UNCHANGED last_click

\* Event::KeyDown; cap bounds the number of steps away from zero
EventKeyDown(keycode, cap) ==
    /\ running
    /\ keycode = "Equals" => net_steps < cap
    /\ keycode = "Minus" => net_steps > -cap
    /\ IF keycode = "Q"
       THEN /\ running' = FALSE
            /\ UNCHANGED <<current_selected_charge, net_steps, frame>>
       ELSE /\ Game_handle_keydown(keycode)
            /\ frame' = Tick
            /\ UNCHANGED running
    /\ UNCHANGED <<particles, selected_part, lines, redraws, probe, last_click>>

\* Event::KeyUp
EventKeyUp ==
    /\ running
    /\ Game_handle_keyup
    /\ frame' = Tick
    /\ UNCHANGED <<selected_part, lines, running, redraws, net_steps, probe, last_click>>

\* any other event: `_ => {}`
EventOther ==
    /\ running
    /\ frame' = Tick
    /\ UNCHANGED <<particles, current_selected_charge, selected_part, lines,
                   running, redraws, net_steps, probe, last_click>>

\* poll_iter is exhausted: canvas.present(), the sleep, the next frame
Present ==
    /\ running
    /\ frame' = "fresh"
    /\ UNCHANGED <<particles, current_selected_charge, selected_part, lines,
                   running, redraws, net_steps, probe, last_click>>

\* -------------------------------------------------------- specifications
Last(q) == q[Len(q)]

NoProbe == [set |-> FALSE]
NoClick == [set |-> FALSE]

\* pointer positions of the mouse-button-down events
ClickPoints ==
    {<<100, 100>>, <<125, 100>>, <<-1, 100>>, <<720, 200>>, <<760, 300>>,
     <<800, 500>>, <<801, 100>>}

MotionPoints == {<<110, 105>>}

\* run(): the state in which the main loop is entered, after the first
\* game.on_update and toolbar.on_update
Init ==
    /\ particles = <<>>
    /\ current_selected_charge = 0
    /\ selected_part = "None"
    /\ lines = on_update(<<>>)
    /\ running = TRUE
    /\ redraws = 1
    /\ frame = "fresh"
    /\ net_steps = 0
    /\ probe = NoProbe
    /\ last_click = NoClick

Next ==
    \/ EventQuit
    \/ \E p \in MotionPoints : EventMouseMotion(p[1], p[2])
    \/ \E p \in ClickPoints : EventMouseButtonDown(p[1], p[2])
    \/ \E k \in Keycodes : EventKeyDown(k, MaxCharge)
    \/ EventKeyUp
    \/ EventOther
    \/ Present

Spec == Init /\ [][Next]_vars

\* The key-down events alone, further from zero: no charge is placed.
NextKeys ==
    \/ EventQuit
    \/ \E p \in {q \in ClickPoints : ~RoutedToGame(q[1])} :
           EventMouseButtonDown(p[1], p[2])
    \/ \E k \in Keycodes : EventKeyDown(k, MaxKeySteps)
    \/ EventKeyUp
    \/ Present

SpecKeys == Init /\ [][NextKeys]_vars

\* The mouse-button-down events over the width of the window and beyond it,
\* each recorded with what it did.
RouteClicks ==
    {<<-1, 100>>, <<0, 0>>, <<719, 599>>, <<720, 200>>, <<760, 300>>,
     <<800, 500>>, <<801, 100>>}

Click(x, y) ==
    /\ MouseButtonDown(x, y)
    /\ last_click' = [set |-> TRUE, x |-> x, y |-> y,
                      appended |-> Len(particles') = Len(particles) + 1,
                      kept |-> selected_part' = selected_part]

NextRoute ==
    \/ \E p \in RouteClicks : Click(p[1], p[2])
    \/ Present
    \/ EventQuit

SpecRoute == Init /\ [][NextRoute]_vars

\* Game::on_update on a given charge set: the state inside
\* Game::handle_mouse_down after the push (inside run() before the first
\* on_update, for the empty set); the canvas still shows the lines of the
\* set before the push.
RECURSIVE SeqsUpTo(_, _)
SeqsUpTo(S, n) ==
    IF n = 0 THEN {<<>>}
    ELSE LET shorter == SeqsUpTo(S, n - 1)
         IN shorter \cup {Append(q, e) : q \in shorter, e \in S}

TraceParts ==
    {<<p[1], p[2], c>> : p \in {<<100, 100>>, <<125, 100>>, <<100, 125>>},
                         c \in {-CHARGE_STEP, 0, CHARGE_STEP}}

Front(q) == IF q = <<>> THEN <<>> ELSE SubSeq(q, 1, Len(q) - 1)

InitTrace ==
    /\ particles \in SeqsUpTo(TraceParts, MaxTraceParticles)
    /\ current_selected_charge = IF particles = <<>> THEN 0 ELSE Last(particles)[3]
    /\ selected_part = "None"
    /\ lines = on_update(Front(particles))
    /\ running = TRUE
    /\ redraws = Len(particles)
    /\ frame = "fresh"
    /\ net_steps = IF particles = <<>> THEN 0 ELSE Last(particles)[3] \div CHARGE_STEP
    /\ probe = NoProbe
    /\ last_click = NoClick

\* self.on_update(canvas)
Game_on_update ==
    /\ redraws = Len(particles)
    /\ lines' = on_update(particles)
    /\ redraws' = redraws + 1
    /\ frame' = "redrawn"
    /\ UNCHANGED <<particles, current_selected_charge, selected_part, running,
                   net_steps, probe, last_click>>

NextTrace == Game_on_update

SpecTrace == InitTrace /\ [][NextTrace]_vars

\* The field query of Event::MouseMotion on a given charge set, recorded
\* with the same query against the two parts of a split of the set.
RECURSIVE Part(_, _, _)
Part(ps, i, keep) ==
    IF i > Len(ps) THEN <<>>
    ELSE (IF i \in keep THEN <<ps[i]>> ELSE <<>>) \o Part(ps, i + 1, keep)

FieldQuery(x, y, mask) ==
    /\ running
    /\ probe' = [set |-> TRUE, x |-> x, y |-> y, mask |-> mask,
                 full |-> get_field_strength(particles, x * SUB, y * SUB),
                 a |-> get_field_strength(Part(particles, 1, mask),
                                          x * SUB, y * SUB),
                 b |-> get_field_strength(
                           Part(particles, 1, (1..Len(particles)) \ mask),
                           x * SUB, y * SUB)]
    /\ frame' = Tick
    /\ UNCHANGED <<particles, current_selected_charge, selected_part, lines,
                   running, redraws, net_steps, last_click>>

FieldParts ==
    {<<p[1], p[2], c>> : p \in {<<100, 100>>, <<125, 100>>},
                         c \in {-CHARGE_STEP, CHARGE_STEP}}
        \cup {<<125, 100, 0>>}

QueryPoints == {<<110, 105>>, <<300, 250>>}

\* the charges were placed, the selected charge was reset with N
InitField ==
    /\ particles \in SeqsUpTo(FieldParts, MaxFieldParticles)
    /\ current_selected_charge = 0
    /\ selected_part = "None"
    /\ lines = on_update(particles)
    /\ running = TRUE
    /\ redraws = 1 + Len(particles)
    /\ frame = "fresh"
    /\ net_steps = 0
    /\ probe = NoProbe
    /\ last_click = NoClick

NextField ==
    \E p \in QueryPoints : \E mask \in SUBSET (1..Len(particles)) :
        FieldQuery(p[1], p[2], mask)

SpecField == InitField /\ [][NextField]_vars

\* ---------------------------------------------------------------- claims
Positives(ps) == {i \in 1..Len(ps) : ps[i][3] > 0}
Negatives(ps) == {i \in 1..Len(ps) : ps[i][3] < 0}

\* pos lies within the capture radius of some negative charge
NearNegative(pos) ==
    \E i \in Negatives(particles) : Within(pos, particles[i])

OnePositiveOneNegative ==
    /\ Len(particles) = 2
    /\ Cardinality(Positives(particles)) = 1
    /\ Cardinality(Negatives(particles)) = 1

\* the line stopped at a step whose new position is in the capture radius;
\* that position was not appended
Stopped(l) ==
    /\ Len(l.path) >= 1
    /\ NearNegative(Last(l.path))
    /\ Len(l.points) = Len(l.path)

\* the line took every step and entered no capture radius
Exhausted(l) ==
    /\ Len(l.path) = MAX_LINE_ITERS
    /\ \A k \in 1..Len(l.path) : ~NearNegative(l.path[k])
    /\ Len(l.points) = MAX_LINE_ITERS + 1

LastPointNearNegative(l) ==
    NearNegative(Vec(Last(l.points)[1] * SUB, Last(l.points)[2] * SUB))

C3_NonEmission ==
    /\ Positives(particles) = {} => lines = <<>>
    /\ \A n \in 1..Len(lines) : particles[lines[n].src][3] > 0

C3_Witness ==
    /\ Len(particles) = 2
    /\ \E i \in 1..2 : particles[i][3] < 0
    /\ \E i \in 1..2 : particles[i][3] = 0
    /\ lines = <<>>
    /\ redraws = 3

\* the picture on the canvas is that of the current charge set
Drawn == redraws = Len(particles) + 1

\* C9: in every trace no step before the last enters the capture radius of
\* any negative charge; a trace that stops before MAX_LINE_ITERS steps
\* stops at a position inside the capture radius of a negative charge (so
\* never at a neutral or positive one); a trace whose last position is
\* inside one has appended no point for it; any other trace takes all the
\* steps.
C9_CaptureEveryStep ==
    Drawn =>
        \A n \in 1..Len(lines) :
            LET l == lines[n]
            IN /\ \A k \in 1..(Len(l.path) - 1) : ~NearNegative(l.path[k])
               /\ Len(l.path) >= 1
               /\ IF NearNegative(Last(l.path))
                  THEN Len(l.points) = Len(l.path)
                  ELSE /\ Len(l.path) = MAX_LINE_ITERS
                       /\ Len(l.points) = MAX_LINE_ITERS + 1

\* a line stopped by the negative charge listed second, a line stopped by
\* the one listed first
C9_Witness ==
    /\ Drawn
    /\ Negatives(particles) = {1, 2}
    /\ \E n \in 1..Len(lines) :
           /\ Len(lines[n].path) < MAX_LINE_ITERS
           /\ Within(Last(lines[n].path), particles[2])
           /\ ~Within(Last(lines[n].path), particles[1])
    /\ \E n \in 1..Len(lines) :
           /\ Len(lines[n].path) < MAX_LINE_ITERS
           /\ Within(Last(lines[n].path), particles[1])
    /\ \E n \in 1..Len(lines) : Len(lines[n].path) = MAX_LINE_ITERS

\* C4: the charge set only grows at its end: a step either leaves
\* particles as it is, or appends one charge at the position of a
\* mouse-button-down routed to the game, with the selected charge; charges
\* already there keep position, magnitude and index.
C4_AppendOnly ==
    [][\/ particles' = particles
       \/ \E p \in ClickPoints :
              /\ p[1] >= 0
              /\ p[1] < ToolbarLeft
              /\ particles' =
                     Append(particles, <<p[1], p[2], current_selected_charge>>)]_vars

C4_Witness ==
    /\ Len(particles) = 2
    /\ particles[1] # particles[2]
    /\ frame = "event_after_redraw"
    /\ current_selected_charge # particles[2][3]

C6_Routing_AsClaimed ==
    last_click.set =>
        ((last_click.appended /\ last_click.kept) <=> last_click.x < ToolbarLeft)

\* C7 as claimed: as many increases as decreases since the last reset
\* leave the selected charge at exactly zero.
C7_BackToZero_AsClaimed == net_steps = 0 => current_selected_charge = 0

C10_MagnitudeFromKeys ==
    [][/\ Len(particles') = Len(particles) + 1 =>
              /\ Last(particles')[3] = current_selected_charge
              /\ current_selected_charge' = current_selected_charge
              /\ selected_part' = selected_part
       /\ selected_part' # selected_part =>
              /\ current_selected_charge' = current_selected_charge
              /\ particles' = particles]_vars

C10_Witness ==
    /\ frame = "redrawn"
    /\ selected_part = "Positive"
    /\ Len(particles) >= 1
    /\ Last(particles)[3] < 0

====
